---- MODULE Spec2Model ----
(***************************************************************************)
(* Model of the PyEFVLib transient heat-conduction solver                  *)
(* (libs/simulation/HeatTransfer2D.py) and of the element-shape tables     *)
(* (GridReader/libs/geometry/Shape.py).                                    *)
(*                                                                         *)
(* Real numbers are modelled exactly as normalised rationals <<n, d>>      *)
(* (d > 0, gcd(n, d) = 1); floating-point rounding is not modelled.        *)
(* Local indices and vertex handles are 0-based, as in the source.         *)
(***************************************************************************)
EXTENDS Integers, Sequences, FiniteSets, TLC

\* ------------------------------------------------------------------------
\* Bounds of the model
\* ------------------------------------------------------------------------
MaxArea == 1
MaxK == 2
MaxCentroid == 1
MaxIterations == 2
MaxTemp == 1

\* ------------------------------------------------------------------------
\* Exact rational arithmetic (stands for Python/numpy float arithmetic)
\* ------------------------------------------------------------------------
Abs(n) == IF n < 0 THEN -n ELSE n

RECURSIVE GCD(_, _)
GCD(a, b) == IF b = 0 THEN a ELSE GCD(b, a % b)

Q(n, d) ==
    LET s == IF d < 0 THEN -1 ELSE 1
        g == GCD(Abs(n), Abs(d))
    IN  <<(s * n) \div g, (s * d) \div g>>

R(n) == <<n, 1>>
Zero == R(0)
One == R(1)
RAdd(a, b) ==
    LET g == GCD(a[2], b[2])
    IN  Q(a[1] * (b[2] \div g) + b[1] * (a[2] \div g), (a[2] \div g) * b[2])
RNeg(a) == <<-a[1], a[2]>>
RSub(a, b) == RAdd(a, RNeg(b))
RMul(a, b) ==
    LET g1 == GCD(Abs(a[1]), b[2])
        g2 == GCD(Abs(b[1]), a[2])
    IN  Q((a[1] \div g1) * (b[1] \div g2), (a[2] \div g2) * (b[2] \div g1))
RDiv(a, b) == RMul(a, IF b[1] < 0 THEN <<-b[2], -b[1]>> ELSE <<b[2], b[1]>>)
RAbs(a) == <<Abs(a[1]), a[2]>>
RLess(a, b) ==
    LET g == GCD(a[2], b[2])
    IN  a[1] * (b[2] \div g) < b[1] * (a[2] \div g)
RMax2(a, b) == IF RLess(a, b) THEN b ELSE a

\* 0-based array from a tuple
Z(s) == [i \in 0..(Len(s) - 1) |-> s[i + 1]]
Size(f) == Cardinality(DOMAIN f)

\* sum of f[i] for i in lo..hi
RECURSIVE RSum(_, _, _)
RSum(f, lo, hi) == IF hi < lo THEN Zero ELSE RAdd(RSum(f, lo, hi - 1), f[hi])

\* ------------------------------------------------------------------------
\* Shape tables (Shape.py)
\* ------------------------------------------------------------------------
\* the table row with one entry mistyped (0.0 for -1.0)
TriangleDerivativesAtFaceMistyped ==
    Z(<< Z(<<R(-1), R(0)>>), Z(<<R(1), R(0)>>), Z(<<R(0), R(1)>>) >>)

TriangleDerivativesAtFace ==
    Z(<< Z(<<R(-1), R(-1)>>), Z(<<R(1), R(0)>>), Z(<<R(0), R(1)>>) >>)

TriangleInnerFaceShapeFunctionDerivatives ==
    Z(<< TriangleDerivativesAtFace, TriangleDerivativesAtFace, TriangleDerivativesAtFace >>)

TriangleInnerFaceNeighbourVertices ==
    Z(<< Z(<<0, 1>>), Z(<<1, 2>>), Z(<<2, 0>>) >>)

QuadrilateralInnerFaceShapeFunctionDerivatives ==
    Z(<< Z(<< Z(<<Q(-3,4), Q(-1,2)>>), Z(<<Q(3,4), Q(-1,2)>>), Z(<<Q(1,4), Q(1,2)>>), Z(<<Q(-1,4), Q(1,2)>>) >>),
         Z(<< Z(<<Q(-1,2), Q(-1,4)>>), Z(<<Q(1,2), Q(-3,4)>>), Z(<<Q(1,2), Q(3,4)>>), Z(<<Q(-1,2), Q(1,4)>>) >>),
         Z(<< Z(<<Q(-1,4), Q(-1,2)>>), Z(<<Q(1,4), Q(-1,2)>>), Z(<<Q(3,4), Q(1,2)>>), Z(<<Q(-3,4), Q(1,2)>>) >>),
         Z(<< Z(<<Q(-1,2), Q(-3,4)>>), Z(<<Q(1,2), Q(-1,4)>>), Z(<<Q(1,2), Q(1,4)>>), Z(<<Q(-1,2), Q(3,4)>>) >>) >>)

QuadrilateralInnerFaceNeighbourVertices ==
    Z(<< Z(<<0, 1>>), Z(<<1, 2>>), Z(<<2, 3>>), Z(<<3, 0>>) >>)

numberOfInnerFaces(shape) == IF shape = "Triangle" THEN 3 ELSE 4

innerFaceShapeFunctionDerivatives(shape) ==
    IF shape = "Triangle" THEN TriangleInnerFaceShapeFunctionDerivatives
    ELSE QuadrilateralInnerFaceShapeFunctionDerivatives

innerFaceNeighbourVertices(shape) ==
    IF shape = "Triangle" THEN TriangleInnerFaceNeighbourVertices
    ELSE QuadrilateralInnerFaceNeighbourVertices

\* sum([w*vertex.getCoordinates() ...]) for weights [1, -0.5, -0.5]
WeightedPoint(c, v1, v2) ==
    [j \in 0..2 |-> RAdd(RAdd(c[j], RMul(Q(-1, 2), v1[j])), RMul(Q(-1, 2), v2[j]))]

\* Outcome of an operation that may raise: the exception's name, or "" and the value
Raised(e) == [error |-> e, value |-> <<>>]
Returned(v) == [error |-> "", value |-> v]

\* numpy indexing: an index outside the array raises IndexError
AreaVectorFrom(table, local, elementCentroid, elementVertices) ==
    IF local \notin DOMAIN table THEN Raised("IndexError")
    ELSE IF table[local][0] \notin DOMAIN elementVertices
            \/ table[local][1] \notin DOMAIN elementVertices THEN Raised("IndexError")
    ELSE Returned(WeightedPoint(elementCentroid, elementVertices[table[local][0]],
                                elementVertices[table[local][1]]))

TriangleGetInnerFaceAreaVector(local, elementCentroid, elementVertices) ==
    AreaVectorFrom(TriangleInnerFaceNeighbourVertices, local, elementCentroid, elementVertices)

\* the Quadrilateral method reads Triangle.innerFaceNeighbourVertices
QuadrilateralGetInnerFaceAreaVector(local, elementCentroid, elementVertices) ==
    AreaVectorFrom(TriangleInnerFaceNeighbourVertices, local, elementCentroid, elementVertices)

getInnerFaceAreaVector(shape, local, elementCentroid, elementVertices) ==
    IF shape = "Triangle"
    THEN TriangleGetInnerFaceAreaVector(local, elementCentroid, elementVertices)
    ELSE QuadrilateralGetInnerFaceAreaVector(local, elementCentroid, elementVertices)

\* ------------------------------------------------------------------------
\* Small dense linear algebra (numpy matmul / transpose / inv on 2x2)
\* ------------------------------------------------------------------------
Pt(x, y) == Z(<<R(x), R(y), R(0)>>)

det2(J) == RSub(RMul(J[0][0], J[1][1]), RMul(J[0][1], J[1][0]))

\* np.linalg.inv of a 2x2 matrix; a singular matrix raises LinAlgError
inv2(J) ==
    IF det2(J) = Zero THEN Raised("LinAlgError")
    ELSE LET d == det2(J)
         IN  Returned(Z(<< Z(<<RDiv(J[1][1], d), RDiv(RNeg(J[0][1]), d)>>),
                           Z(<<RDiv(RNeg(J[1][0]), d), RDiv(J[0][0], d)>>) >>))

\* Element.getJacobian: contraction of the vertex coordinates with the
\* local derivative table, J[a][b] = sum_i derivatives[i][a] * x_i[b]
getJacobian(elementVertices, derivatives) ==
    [a \in 0..1 |-> [b \in 0..1 |->
        RSum([i \in DOMAIN derivatives |-> RMul(derivatives[i][a], elementVertices[i][b])],
             0, Size(derivatives) - 1)]]

\* calculateInnerFacesGlobalDerivatives, for one inner face:
\* np.matmul(np.linalg.inv(element.getJacobian(derivatives)), np.transpose(derivatives))
globalDerivativesOf(shape, local, elementVertices) ==
    LET derivatives == innerFaceShapeFunctionDerivatives(shape)[local]
        inverse == inv2(getJacobian(elementVertices, derivatives))
        invJ == inverse.value
    IN  IF inverse.error # "" THEN inverse
        ELSE Returned([a \in 0..1 |-> [i \in DOMAIN derivatives |->
                RAdd(RMul(invJ[a][0], derivatives[i][0]), RMul(invJ[a][1], derivatives[i][1]))]])

\* An element as computeLocalMatrix sees it: its shape, its vertex handles
\* and, per inner face, the local index, globalDerivatives and area vector
\* (elements are non-degenerate: every Jacobian is invertible).
MakeElement(shape, handles, elementVertices, areas) ==
    [shape |-> shape,
     vertices |-> handles,
     innerFaces |-> [f \in 0..(numberOfInnerFaces(shape) - 1) |->
                        [local |-> f,
                         globalDerivatives |-> globalDerivativesOf(shape, f, elementVertices).value,
                         area |-> areas[f]]]]

\* np.vstack([derivatives, zeros]) when len(derivatives) == 2
PadRows(derivatives) ==
    IF Size(derivatives) = 2
    THEN [a \in 0..2 |-> IF a < 2 THEN derivatives[a]
                         ELSE [i \in DOMAIN derivatives[0] |-> Zero]]
    ELSE derivatives

\* x[:-1]
DropLast(x) == [a \in 0..(Size(x) - 2) |-> x[a]]

\* permeability * matmul(transpose(derivatives[:-1]), area[:-1])
diffusiveFluxOf(innerFace, permeability) ==
    LET derivatives == DropLast(PadRows(innerFace.globalDerivatives))
        area == DropLast(innerFace.area)
    IN  [i \in DOMAIN derivatives[0] |->
            RMul(permeability,
                 RSum([a \in DOMAIN derivatives |-> RMul(derivatives[a][i], area[a])],
                      0, Size(derivatives) - 1))]

\* AddInnerFace with the forward update written to localMatrix[i][forward]
AddInnerFaceTransposed(localMatrix, element, innerFace, permeability) ==
    LET diffusiveFlux == diffusiveFluxOf(innerFace, permeability)
        backwardVertexLocalHandle == innerFaceNeighbourVertices(element.shape)[innerFace.local][0]
        forwardVertexLocalHandle == innerFaceNeighbourVertices(element.shape)[innerFace.local][1]
        coefficient(i) == RMul(R(-1), diffusiveFlux[i])
    IN  [r \in DOMAIN localMatrix |-> [i \in DOMAIN localMatrix[r] |->
            LET afterBackward == IF r = backwardVertexLocalHandle
                                 THEN RAdd(localMatrix[r][i], coefficient(i))
                                 ELSE localMatrix[r][i]
            IN  IF i = forwardVertexLocalHandle
                THEN RSub(afterBackward, coefficient(r))
                ELSE afterBackward]]

\* the body of the loop over innerFaces of computeLocalMatrix
AddInnerFace(localMatrix, element, innerFace, permeability) ==
    LET diffusiveFlux == diffusiveFluxOf(innerFace, permeability)
        backwardVertexLocalHandle == innerFaceNeighbourVertices(element.shape)[innerFace.local][0]
        forwardVertexLocalHandle == innerFaceNeighbourVertices(element.shape)[innerFace.local][1]
        coefficient(i) == RMul(R(-1), diffusiveFlux[i])
    IN  [r \in DOMAIN localMatrix |-> [i \in DOMAIN localMatrix[r] |->
            LET afterBackward == IF r = backwardVertexLocalHandle
                                 THEN RAdd(localMatrix[r][i], coefficient(i))
                                 ELSE localMatrix[r][i]
            IN  IF r = forwardVertexLocalHandle
                THEN RSub(afterBackward, coefficient(i))
                ELSE afterBackward]]

RECURSIVE LocalMatrixAfter(_, _, _)
LocalMatrixAfter(element, permeability, nFaces) ==
    IF nFaces = 0
    THEN [r \in DOMAIN element.vertices |-> [i \in DOMAIN element.vertices |-> Zero]]
    ELSE AddInnerFace(LocalMatrixAfter(element, permeability, nFaces - 1),
                      element, element.innerFaces[nFaces - 1], permeability)

computeLocalMatrix(element, permeability) ==
    LocalMatrixAfter(element, permeability, Size(element.innerFaces))

RowSum(m, r) == RSum(m[r], 0, Size(m[r]) - 1)

\* ------------------------------------------------------------------------
\* Grids handed to the solver (mesh data with pre-computed volumes)
\* ------------------------------------------------------------------------
\* Element centroid used for the inner-face area vectors of a triangle
TriangleCentroid(elementVertices) ==
    [j \in 0..2 |-> RMul(Q(1, 3), RSum([i \in 0..2 |-> elementVertices[i][j]], 0, 2))]

TriangleElement(handles, coords, subVolume) ==
    LET elementVertices == [i \in 0..2 |-> coords[handles[i]]]
        areas == [f \in 0..2 |->
                    TriangleGetInnerFaceAreaVector(f, TriangleCentroid(elementVertices),
                                                   elementVertices).value]
    IN  MakeElement("Triangle", handles, elementVertices, areas)
            @@ [subelementVolumes |-> [i \in 0..2 |-> subVolume]]

QuadrilateralElement(handles, coords, areas, subVolume) ==
    MakeElement("Quadrilateral", handles, [i \in 0..3 |-> coords[handles[i]]], areas)
        @@ [subelementVolumes |-> [i \in 0..3 |-> subVolume]]

\* outer faces of the facet between vertices 0 and 1 (the edge y = 0)
BottomOuterFaces ==
    << [handle |-> 0, vertex |-> 0, area |-> Z(<<R(0), Q(-1, 2), R(0)>>)],
       [handle |-> 1, vertex |-> 1, area |-> Z(<<R(0), Q(-1, 2), R(0)>>)] >>

GridTri1 ==
    LET coords == Z(<<Pt(0, 0), Pt(1, 0), Pt(0, 1)>>)
        e0 == TriangleElement(Z(<<0, 1, 2>>), coords, Q(1, 6))
    IN  [name |-> "tri1",
         vertices |-> [h \in 0..2 |-> [handle |-> h, volume |-> Q(1, 6)]],
         regions |-> << [handle |-> 0, elements |-> <<e0>>] >>,
         outerFaces |-> BottomOuterFaces]

Tri2Coords == Z(<<Pt(0, 0), Pt(1, 0), Pt(1, 1), Pt(0, 1)>>)

Tri2Vertices ==
    [h \in 0..3 |-> [handle |-> h, volume |-> IF h \in {0, 2} THEN Q(1, 3) ELSE Q(1, 6)]]

GridTri2 ==
    LET e0 == TriangleElement(Z(<<0, 1, 2>>), Tri2Coords, Q(1, 6))
        e1 == TriangleElement(Z(<<0, 2, 3>>), Tri2Coords, Q(1, 6))
    IN  [name |-> "tri2",
         vertices |-> Tri2Vertices,
         regions |-> << [handle |-> 0, elements |-> <<e0, e1>>] >>,
         outerFaces |-> BottomOuterFaces]

GridTri2Regions ==
    LET e0 == TriangleElement(Z(<<0, 1, 2>>), Tri2Coords, Q(1, 6))
        e1 == TriangleElement(Z(<<0, 2, 3>>), Tri2Coords, Q(1, 6))
    IN  [name |-> "tri2regions",
         vertices |-> Tri2Vertices,
         regions |-> << [handle |-> 0, elements |-> <<e0>>],
                        [handle |-> 1, elements |-> <<e1>>] >>,
         outerFaces |-> BottomOuterFaces]

GridQuad1 ==
    LET areas == Z(<< Z(<<R(0), Q(1, 2), R(0)>>), Z(<<Q(-1, 2), R(0), R(0)>>),
                      Z(<<R(0), Q(-1, 2), R(0)>>), Z(<<Q(1, 2), R(0), R(0)>>) >>)
        e0 == QuadrilateralElement(Z(<<0, 1, 2, 3>>), Tri2Coords, areas, Q(1, 4))
    IN  [name |-> "quad1",
         vertices |-> [h \in 0..3 |-> [handle |-> h, volume |-> Q(1, 4)]],
         regions |-> << [handle |-> 0, elements |-> <<e0>>] >>,
         outerFaces |-> BottomOuterFaces]

Grids == {GridTri1, GridTri2, GridTri2Regions, GridQuad1}

\* ------------------------------------------------------------------------
\* Helpers for the assembly loops and the linear solve
\* ------------------------------------------------------------------------
RECURSIVE Flatten(_)
Flatten(ss) == IF ss = <<>> THEN <<>> ELSE Head(ss) \o Flatten(Tail(ss))

\* vec[h] = value, for each <<h, value>> in order
RECURSIVE SetAll(_, _)
SetAll(vec, writes) ==
    IF writes = <<>> THEN vec
    ELSE SetAll([vec EXCEPT ![Head(writes)[1]] = Head(writes)[2]], Tail(writes))

\* vec[h] += value, for each <<h, value>> in order
RECURSIVE AddAll(_, _)
AddAll(vec, adds) ==
    IF adds = <<>> THEN vec
    ELSE AddAll([vec EXCEPT ![Head(adds)[1]] = RAdd(@, Head(adds)[2])], Tail(adds))

\* m[row][col] += value, for each <<row, col, value>> in order
RECURSIVE AddAllMatrix(_, _)
AddAllMatrix(m, adds) ==
    IF adds = <<>> THEN m
    ELSE AddAllMatrix([m EXCEPT ![Head(adds)[1]][Head(adds)[2]] = RAdd(@, Head(adds)[3])],
                      Tail(adds))

ISqrt(k) == CHOOSE r \in 0..k : r * r = k

\* np.linalg.norm of a coordinate array (the model's areas have rational norms)
norm(x) ==
    LET sq == RSum([j \in DOMAIN x |-> RMul(x[j], x[j])], 0, Size(x) - 1)
    IN  <<ISqrt(sq[1]), ISqrt(sq[2])>>

Minor(m, c) ==
    [r \in 0..(Size(m) - 2) |-> [k \in 0..(Size(m) - 2) |-> m[r + 1][IF k < c THEN k ELSE k + 1]]]

RECURSIVE Det(_)
Det(m) ==
    IF Size(m) = 1 THEN m[0][0]
    ELSE RSum([c \in DOMAIN m |->
                 IF m[0][c] = Zero THEN Zero
                 ELSE RMul(IF c % 2 = 0 THEN m[0][c] ELSE RNeg(m[0][c]), Det(Minor(m, c)))],
              0, Size(m) - 1)

\* np.linalg.solve(a, b): the unique x with a.x = b; a singular a raises LinAlgError
solve(a, b) ==
    LET d == Det(a)
    IN  IF d = Zero THEN Raised("LinAlgError")
        ELSE Returned([i \in DOMAIN a |->
                RDiv(Det([r \in DOMAIN a |-> [c \in DOMAIN a |-> IF c = i THEN b[r] ELSE a[r][c]]]), d)])

RECURSIVE RMaxOf(_, _)
RMaxOf(f, hi) == IF hi = 0 THEN f[0] ELSE RMax2(RMaxOf(f, hi - 1), f[hi])

\* ------------------------------------------------------------------------
\* State
\* ------------------------------------------------------------------------
VARIABLES
    grid,                  \* self.grid
    problemData,           \* self.problemData
    numericalTemperature,  \* self.numericalTemperature
    oldTemperature,        \* self.oldTemperature
    matrix,                \* self.matrix
    independent,           \* self.independent (<<>> before the first assembly)
    difference,            \* self.difference
    iteration,             \* self.iteration
    converged,             \* self.converged
    currentTime,           \* self.timer.getCurrentTime()
    saver,                 \* self.cgnsSaver: number of save calls, last saved field and time, finalize calls
    pc,                    \* position of the control flow in __init__ / run
    steps,                 \* operations performed so far in the current loop iteration
    geo                    \* inputs and results of the shape-level operations

vars == <<grid, problemData, numericalTemperature, oldTemperature, matrix, independent,
          difference, iteration, converged, currentTime, saver, pc, steps, geo>>

solverVars == <<grid, problemData, numericalTemperature, oldTemperature, matrix, independent,
                difference, iteration, converged, currentTime, saver, pc, steps>>

Handles == DOMAIN grid.vertices

\* ------------------------------------------------------------------------
\* addToLinearSystem
\* ------------------------------------------------------------------------
\* Internal Heat Generation: independent[vertex.handle] = vertex.volume * heatGeneration
HeatGenerationWrites(g, pd) ==
    Flatten([r \in 1..Len(g.regions) |->
        LET region == g.regions[r]
            heatGeneration == pd.propertyData[region.handle].InternalHeatGeneration
        IN  Flatten([e \in 1..Len(region.elements) |->
                LET element == region.elements[e]
                IN  [l \in 1..Size(element.vertices) |->
                        <<element.vertices[l - 1],
                          RMul(g.vertices[element.vertices[l - 1]].volume, heatGeneration)>>]])])

\* HeatGenerationPass accumulating (+=) instead of overwriting
HeatGenerationPassAccumulating(g, pd, indep) == AddAll(indep, HeatGenerationWrites(g, pd))

HeatGenerationPass(g, pd, indep) == SetAll(indep, HeatGenerationWrites(g, pd))

accumulationOf(pd, region) ==
    RDiv(RMul(pd.propertyData[region.handle].Density, pd.propertyData[region.handle].HeatCapacity),
         pd.timeStep)

\* independent[index] += element.subelementVolumes[local] * accumulation * oldTemperature[handle]
TransientAdds(g, pd, old) ==
    Flatten([r \in 1..Len(g.regions) |->
        LET region == g.regions[r]
            accumulation == accumulationOf(pd, region)
        IN  Flatten([e \in 1..Len(region.elements) |->
                LET element == region.elements[e]
                IN  [l \in 1..Size(element.vertices) |->
                        <<element.vertices[l - 1],
                          RMul(RMul(element.subelementVolumes[l - 1], accumulation),
                               old[element.vertices[l - 1]])>>]])])

TransientPass(g, pd, old, indep) == AddAll(indep, TransientAdds(g, pd, old))

\* iteration == 0: matrix[index][index] += subelementVolume * accumulation and
\* matrix[index][q.handle] += localMatrixFlux[local][qLocalIndex]
MatrixAdds(g, pd) ==
    Flatten([r \in 1..Len(g.regions) |->
        LET region == g.regions[r]
            conductivity == pd.propertyData[region.handle].Conductivity
            accumulation == accumulationOf(pd, region)
        IN  Flatten([e \in 1..Len(region.elements) |->
                LET element == region.elements[e]
                    localMatrixFlux == computeLocalMatrix(element, conductivity)
                IN  Flatten([l \in 1..Size(element.vertices) |->
                        <<  <<element.vertices[l - 1], element.vertices[l - 1],
                              RMul(element.subelementVolumes[l - 1], accumulation)>> >>
                        \o [q \in 1..Size(element.vertices) |->
                              <<element.vertices[l - 1], element.vertices[q - 1],
                                localMatrixFlux[l - 1][q - 1]>>]])])])

\* MatrixPass without the iteration == 0 guard
MatrixPassEveryIteration(g, pd, it, m) == AddAllMatrix(m, MatrixAdds(g, pd))

MatrixPass(g, pd, it, m) == IF it = 0 THEN AddAllMatrix(m, MatrixAdds(g, pd)) ELSE m

\* independent[outerFace.vertex.handle] += -1.0 * value * norm(outerFace.area)
NeumannAdds(g, pd) ==
    Flatten([b \in 1..Len(pd.neumannBoundaries) |->
        LET bCondition == pd.neumannBoundaries[b]
        IN  [o \in 1..Len(bCondition.outerFaces) |->
                <<bCondition.outerFaces[o].vertex,
                  RMul(RMul(R(-1), bCondition.value), norm(bCondition.outerFaces[o].area))>>]])

NeumannPass(g, pd, indep) == AddAll(indep, NeumannAdds(g, pd))

\* independent[vertex.handle] = bCondition.getValue(vertex.handle)
DirichletWrites(pd) ==
    Flatten([b \in 1..Len(pd.dirichletBoundaries) |->
        LET bCondition == pd.dirichletBoundaries[b]
        IN  [v \in 1..Len(bCondition.vertices) |-> <<bCondition.vertices[v], bCondition.value>>]])

\* DirichletPass accumulating (+=) instead of overwriting
DirichletPassAccumulating(pd, indep) == AddAll(indep, DirichletWrites(pd))

DirichletPass(pd, indep) == SetAll(indep, DirichletWrites(pd))

DirichletVertices(pd) == {DirichletWrites(pd)[i][1] : i \in 1..Len(DirichletWrites(pd))}

\* iteration == 0: matrix[vertex.handle] = zeros; matrix[vertex.handle][vertex.handle] = 1.0
DirichletRows(pd, it, m) ==
    IF it = 0
    THEN [r \in DOMAIN m |->
            IF r \in DirichletVertices(pd) THEN [c \in DOMAIN m |-> IF c = r THEN One ELSE Zero]
            ELSE m[r]]
    ELSE m

\* AssembledIndependent with the Dirichlet pass run before the Neumann pass
AssembledIndependentDirichletFirst(g, pd, old) ==
    LET zeros == [h \in DOMAIN g.vertices |-> Zero]
    IN  NeumannPass(g, pd,
            DirichletPass(pd,
                TransientPass(g, pd, old,
                    HeatGenerationPass(g, pd, zeros))))

AssembledIndependent(g, pd, old) ==
    LET zeros == [h \in DOMAIN g.vertices |-> Zero]
    IN  DirichletPass(pd,
            NeumannPass(g, pd,
                TransientPass(g, pd, old,
                    HeatGenerationPass(g, pd, zeros))))

AssembledMatrix(g, pd, it, m) == DirichletRows(pd, it, MatrixPass(g, pd, it, m))

\* ------------------------------------------------------------------------
\* Problem data and initial state of the solver (after settings())
\* ------------------------------------------------------------------------
HeatGenerations == {R(0), R(2)}
Temperatures == {R(t) : t \in 0..MaxTemp}

\* <<Density, Conductivity, Neumann flux>>
MaterialCases == {<<R(0), R(1), R(0)>>, <<R(1), R(1), R(1)>>, <<R(1), R(2), R(0)>>}

\* <<finalTime, tolerance>>
StoppingCases == {<<R(0), Q(1, 2)>>, <<R(1), R(0)>>, <<R(100), Q(1, 2)>>, <<R(100), R(0)>>}

PropertyData(g, case, hg) ==
    [r \in 0..(Len(g.regions) - 1) |->
        [Density |-> case[1], HeatCapacity |-> R(1), Conductivity |-> case[2],
         InternalHeatGeneration |-> hg[r]]]

AllVertices(g) == [h \in 1..Size(g.vertices) |-> h - 1]

DirichletSets(g) ==
    {<<>>}
    \cup {<< [vertices |-> AllVertices(g), value |-> t] >> : t \in Temperatures}
    \cup UNION {{<< [vertices |-> <<0, 1>>, value |-> ta],
                    [vertices |-> <<1, 2>>, value |-> tb] >> :
                    tb \in {ta, RSub(R(MaxTemp), ta)}} : ta \in Temperatures}

ProblemDataSets(g) ==
    {[propertyData |-> PropertyData(g, case, hg),
      dirichletBoundaries |-> dirichlet,
      neumannBoundaries |-> << [outerFaces |-> g.outerFaces, value |-> case[3]] >>,
      initialValue |-> initialValue,
      timeStep |-> R(1),
      finalTime |-> stop[1],
      tolerance |-> stop[2],
      maxNumberOfIterations |-> maxNumberOfIterations] :
        case \in MaterialCases,
        hg \in [0..(Len(g.regions) - 1) -> HeatGenerations],
        dirichlet \in DirichletSets(g),
        initialValue \in Temperatures,
        stop \in StoppingCases,
        maxNumberOfIterations \in 0..MaxIterations}

GeoIdle ==
    [op |-> "idle", shape |-> "", vertices |-> <<>>, local |-> 0, centroid |-> <<>>,
     area |-> Raised(""), conductivity |-> Zero, areas |-> <<>>, localMatrix |-> <<>>]

Init ==
    /\ grid \in Grids
    /\ problemData \in ProblemDataSets(grid)
    /\ numericalTemperature = [h \in DOMAIN grid.vertices |-> Zero]
    /\ oldTemperature = [h \in DOMAIN grid.vertices |-> problemData.initialValue]
    /\ matrix = [r \in DOMAIN grid.vertices |-> [c \in DOMAIN grid.vertices |-> Zero]]
    /\ independent = <<>>
    /\ difference = Zero
    /\ iteration = 0
    /\ converged = FALSE
    /\ currentTime = Zero
    /\ saver = [saves |-> 0, field |-> <<>>, time |-> Zero, finalized |-> 0]
    /\ pc = "run"
    /\ steps = <<>>
    /\ geo = GeoIdle

\* ------------------------------------------------------------------------
\* run(): one action per statement of the loop
\* ------------------------------------------------------------------------
\* LoopCondition with <= for <
LoopConditionOffByOne == ~converged /\ iteration <= problemData.maxNumberOfIterations

\* while not self.converged and self.iteration < maxNumberOfIterations
LoopCondition == ~converged /\ iteration < problemData.maxNumberOfIterations

LoopTest ==
    /\ pc = "run"
    /\ pc' = IF LoopCondition THEN "addToLinearSystem" ELSE "finalize"
    /\ steps' = IF LoopCondition THEN <<>> ELSE steps
    /\ UNCHANGED <<grid, problemData, numericalTemperature, oldTemperature, matrix, independent,
                   difference, iteration, converged, currentTime, saver, geo>>

addToLinearSystem ==
    /\ pc = "addToLinearSystem"
    /\ independent' = AssembledIndependent(grid, problemData, oldTemperature)
    /\ matrix' = AssembledMatrix(grid, problemData, iteration, matrix)
    /\ steps' = Append(steps, "assemble")
    /\ pc' = "solveLinearSystem"
    /\ UNCHANGED <<grid, problemData, numericalTemperature, oldTemperature,
                   difference, iteration, converged, currentTime, saver, geo>>

\* a LinAlgError propagates out of run() and __init__: finalize() is not reached
solveLinearSystem ==
    /\ pc = "solveLinearSystem"
    /\ LET x == solve(matrix, independent)
       IN  IF x.error # ""
           THEN /\ pc' = "raised"
                /\ UNCHANGED <<numericalTemperature, steps>>
           ELSE /\ numericalTemperature' = x.value
                /\ steps' = Append(steps, "solve")
                /\ pc' = "incrementTime"
    /\ UNCHANGED <<grid, problemData, oldTemperature, matrix, independent,
                   difference, iteration, converged, currentTime, saver, geo>>

\* Timer.incrementTime: the simulated time advances by timeStep
TimerIncrementTime(time, timeStep) == RAdd(time, timeStep)

\* self.timer.incrementTime()
incrementTime ==
    /\ pc = "incrementTime"
    /\ currentTime' = TimerIncrementTime(currentTime, problemData.timeStep)
    /\ steps' = Append(steps, "advance")
    /\ pc' = "save"
    /\ UNCHANGED <<grid, problemData, numericalTemperature, oldTemperature, matrix, independent,
                   difference, iteration, converged, saver, geo>>

\* save handing over the previous field
saveOldTemperature ==
    /\ pc = "save"
    /\ saver' = [saver EXCEPT !.saves = @ + 1, !.field = oldTemperature, !.time = currentTime]
    /\ steps' = Append(steps, "save")
    /\ pc' = "checkConvergence"
    /\ UNCHANGED <<grid, problemData, numericalTemperature, oldTemperature, matrix, independent,
                   difference, iteration, converged, currentTime, geo>>

\* self.cgnsSaver.save(self.numericalTemperature, self.timer.getCurrentTime())
save ==
    /\ pc = "save"
    /\ saver' = [saver EXCEPT !.saves = @ + 1, !.field = numericalTemperature, !.time = currentTime]
    /\ steps' = Append(steps, "save")
    /\ pc' = "checkConvergence"
    /\ UNCHANGED <<grid, problemData, numericalTemperature, oldTemperature, matrix, independent,
                   difference, iteration, converged, currentTime, geo>>

differenceOf(temperature, old) ==
    RMaxOf([h \in DOMAIN temperature |-> RAbs(RSub(temperature[h], old[h]))], Size(temperature) - 1)

\* convergedOf applying the tolerance test at iteration 0 too
convergedOfAnyIteration(time, finalTime, it, diff, tolerance) ==
    IF RLess(finalTime, time) THEN TRUE
    ELSE RLess(diff, tolerance)

convergedOf(time, finalTime, it, diff, tolerance) ==
    IF RLess(finalTime, time) THEN TRUE
    ELSE IF it > 0 THEN RLess(diff, tolerance)
    ELSE FALSE

\* self.converged = self.checkConvergence()
checkConvergence ==
    /\ pc = "checkConvergence"
    /\ difference' = differenceOf(numericalTemperature, oldTemperature)
    /\ oldTemperature' = numericalTemperature
    /\ converged' = convergedOf(currentTime, problemData.finalTime, iteration, difference',
                                problemData.tolerance)
    /\ steps' = Append(steps, "check")
    /\ pc' = "incrementIteration"
    /\ UNCHANGED <<grid, problemData, numericalTemperature, matrix, independent,
                   iteration, currentTime, saver, geo>>

\* self.iteration += 1
incrementIteration ==
    /\ pc = "incrementIteration"
    /\ iteration' = iteration + 1
    /\ steps' = Append(steps, "increment")
    /\ pc' = "run"
    /\ UNCHANGED <<grid, problemData, numericalTemperature, oldTemperature, matrix, independent,
                   difference, converged, currentTime, saver, geo>>

\* self.cgnsSaver.finalize()
finalize ==
    /\ pc = "finalize"
    /\ saver' = [saver EXCEPT !.finalized = @ + 1]
    /\ pc' = "done"
    /\ UNCHANGED <<grid, problemData, numericalTemperature, oldTemperature, matrix, independent,
                   difference, iteration, converged, currentTime, steps, geo>>

Next ==
    \/ LoopTest
    \/ addToLinearSystem
    \/ solveLinearSystem
    \/ incrementTime
    \/ save
    \/ checkConvergence
    \/ incrementIteration
    \/ finalize

Spec == Init /\ [][Next]_vars

\* ------------------------------------------------------------------------
\* Shape-level operations applied to single elements
\* ------------------------------------------------------------------------
ElementGeometries ==
    { <<"Triangle", Z(<<Pt(0, 0), Pt(1, 0), Pt(0, 1)>>)>>,
      <<"Triangle", Z(<<Pt(0, 0), Pt(2, 0), Pt(1, 2)>>)>>,
      <<"Quadrilateral", Z(<<Pt(0, 0), Pt(1, 0), Pt(1, 1), Pt(0, 1)>>)>>,
      <<"Quadrilateral", Z(<<Pt(0, 0), Pt(2, 0), Pt(3, 2), Pt(0, 1)>>)>> }

Centroids == {Pt(x, y) : x \in 0..MaxCentroid, y \in 0..MaxCentroid}

AreaVectors == {Pt(x, y) : x \in 0..MaxArea, y \in {-1, 1}}

\* inputs of a call of getInnerFaceAreaVector
AreaInputs ==
    {[GeoIdle EXCEPT !.op = "areaInput", !.shape = e[1], !.vertices = e[2],
                     !.local = local, !.centroid = elementCentroid] :
        e \in ElementGeometries, local \in 0..3, elementCentroid \in Centroids}

\* inputs of a call of computeLocalMatrix
MatrixInputs ==
    UNION {{[GeoIdle EXCEPT !.op = "matrixInput", !.shape = e[1], !.vertices = e[2],
                            !.conductivity = R(k), !.areas = areas] :
                k \in 1..MaxK, areas \in [0..(numberOfInnerFaces(e[1]) - 1) -> AreaVectors]} :
           e \in ElementGeometries}

ShapeInit ==
    /\ geo \in {g \in AreaInputs : g.local < numberOfInnerFaces(g.shape)} \cup MatrixInputs
    /\ grid = <<>>
    /\ problemData = <<>>
    /\ numericalTemperature = <<>>
    /\ oldTemperature = <<>>
    /\ matrix = <<>>
    /\ independent = <<>>
    /\ difference = Zero
    /\ iteration = 0
    /\ converged = FALSE
    /\ currentTime = Zero
    /\ saver = [saves |-> 0, field |-> <<>>, time |-> Zero, finalized |-> 0]
    /\ pc = "idle"
    /\ steps = <<>>

\* shape.getInnerFaceAreaVector(local, elementCentroid, elementVertices)
ApplyGetInnerFaceAreaVector ==
    /\ geo.op = "areaInput"
    /\ geo' = [geo EXCEPT !.op = "area",
                          !.area = getInnerFaceAreaVector(geo.shape, geo.local, geo.centroid,
                                                          geo.vertices)]
    /\ UNCHANGED solverVars

\* computeLocalMatrix(element, permeability) on an element with the given area vectors
ApplyComputeLocalMatrix ==
    /\ geo.op = "matrixInput"
    /\ geo' = [geo EXCEPT !.op = "matrix",
                          !.localMatrix =
                              computeLocalMatrix(
                                  MakeElement(geo.shape, [i \in DOMAIN geo.vertices |-> i],
                                              geo.vertices, geo.areas), geo.conductivity)]
    /\ UNCHANGED solverVars

ShapeNext ==
    \/ ApplyGetInnerFaceAreaVector
    \/ ApplyComputeLocalMatrix

ShapeSpec == ShapeInit /\ [][ShapeNext]_vars

\* ------------------------------------------------------------------------
\* Properties
\* ------------------------------------------------------------------------

\* C1: every row of the matrix returned by computeLocalMatrix sums to zero,
\* for both topologies, every conductivity and every set of inner-face area
\* vectors.
LocalMatrixRowsSumToZero ==
    geo.op = "matrix" =>
        \A r \in DOMAIN geo.localMatrix : RowSum(geo.localMatrix, r) = Zero

LocalMatrixWitness ==
    /\ geo.op = "matrix"
    /\ geo.shape = "Quadrilateral"
    /\ geo.conductivity = R(2)
    /\ \A r \in DOMAIN geo.localMatrix : \E c \in DOMAIN geo.localMatrix : geo.localMatrix[r][c] # Zero

\* C5: for both topologies and every valid local inner-face index,
\* getInnerFaceAreaVector returns centroid - 0.5*v1 - 0.5*v2 with v1, v2 the
\* element vertices named by that same shape's innerFaceNeighbourVertices[local].
AreaVectorUsesOwnNeighbourTable ==
    geo.op = "area" =>
        geo.area = Returned(WeightedPoint(geo.centroid,
                        geo.vertices[innerFaceNeighbourVertices(geo.shape)[geo.local][0]],
                        geo.vertices[innerFaceNeighbourVertices(geo.shape)[geo.local][1]]))

\* C2: checkConvergence reports converged exactly when the current time
\* exceeds finalTime, or iteration > 0 and difference < tolerance; at
\* iteration 0 a run is marked converged only through the time-limit test.
ConvergenceRule ==
    pc = "incrementIteration" =>
        /\ converged = (\/ RLess(problemData.finalTime, currentTime)
                        \/ (iteration > 0 /\ RLess(difference, problemData.tolerance)))
        /\ (iteration = 0 /\ converged) => RLess(problemData.finalTime, currentTime)

ConvergenceRuleWitness ==
    /\ pc = "incrementIteration"
    /\ iteration = 0
    /\ RLess(difference, problemData.tolerance)
    /\ ~converged

\* C3: the run loop terminates (every statement executed lowers a bounded
\* measure, and only a finished or aborted run has no statement to execute);
\* it never runs more than maxNumberOfIterations iterations, does not start
\* another iteration once a convergence check returned true, and whenever the
\* loop exits (converged or iteration limit) the run goes on to finalize
\* exactly once.
Assembling == pc \in {"addToLinearSystem", "solveLinearSystem", "incrementTime", "save",
                      "checkConvergence", "incrementIteration"}

Terminated == pc \in {"done", "raised"}

PositionInLoop ==
    CASE pc = "run" -> 0
      [] pc = "addToLinearSystem" -> 1
      [] pc = "solveLinearSystem" -> 2
      [] pc = "incrementTime" -> 3
      [] pc = "save" -> 4
      [] pc = "checkConvergence" -> 5
      [] pc = "incrementIteration" -> 6

\* every statement of the run is guarded by the position of the control flow only
StepEnabled == Assembling \/ pc \in {"run", "finalize"}

\* number of statements the run can still execute, at most
Rank ==
    IF Terminated THEN 0
    ELSE IF pc = "finalize" THEN 1
    ELSE 2 + 7 * (problemData.maxNumberOfIterations - iteration) - PositionInLoop

RunTerminates ==
    /\ [](Rank >= 0)
    /\ [][Rank' < Rank]_vars
    /\ [](Terminated \/ StepEnabled)
    /\ [](iteration <= problemData.maxNumberOfIterations)
    /\ [](Assembling => iteration < problemData.maxNumberOfIterations)
    /\ [][converged => pc' # "addToLinearSystem"]_vars
    /\ [][(pc = "run" /\ (converged \/ iteration >= problemData.maxNumberOfIterations))
            => pc' = "finalize"]_vars
    /\ [][pc = "finalize" => pc' = "done"]_vars
    /\ [](saver.finalized = IF pc = "done" THEN 1 ELSE 0)

RunTerminatesWitness ==
    /\ pc = "done"
    /\ ~converged
    /\ iteration = problemData.maxNumberOfIterations
    /\ iteration > 1
    /\ saver.finalized = 1

\* C4: after the assembly of iteration 0 the matrix row of every Dirichlet
\* vertex is an identity row, and from then on no entry of the matrix changes.
FirstAssemblyDone ==
    \/ iteration > 0
    \/ pc \in {"solveLinearSystem", "incrementTime", "save", "checkConvergence",
               "incrementIteration", "raised"}

IdentityRow(v) == [c \in DOMAIN matrix |-> IF c = v THEN One ELSE Zero]

MatrixFixedAfterFirstAssembly ==
    /\ [](FirstAssemblyDone => \A v \in DirichletVertices(problemData) : matrix[v] = IdentityRow(v))
    /\ [][FirstAssemblyDone => matrix' = matrix]_vars

MatrixFixedWitness ==
    /\ iteration = 1
    /\ pc = "solveLinearSystem"
    /\ DirichletVertices(problemData) # {}
    /\ \E v \in Handles \ DirichletVertices(problemData) :
            matrix[v] # [c \in DOMAIN matrix |-> Zero] /\ matrix[v] # IdentityRow(v)

\* ------------------------------------------------------------------------
\* Closed forms used to state the assembly properties
\* ------------------------------------------------------------------------
Uniform(value) == [h \in Handles |-> value]

\* a solve of the run has produced numericalTemperature
Solved ==
    \/ iteration > 0
    \/ pc \in {"incrementTime", "save", "checkConvergence", "incrementIteration"}

HeatGenerationOf(r) == problemData.propertyData[grid.regions[r].handle].InternalHeatGeneration

RegionsContaining(v) ==
    {r \in 1..Len(grid.regions) :
        \E e \in 1..Len(grid.regions[r].elements) :
            \E l \in DOMAIN grid.regions[r].elements[e].vertices :
                grid.regions[r].elements[e].vertices[l] = v}

LastRegionContaining(v) ==
    CHOOSE r \in RegionsContaining(v) : \A o \in RegionsContaining(v) : o <= r

\* sum over every (region, element, local vertex) that is vertex v of
\* subelementVolume * accumulation * oldTemperature[v]
TransientTermAt(v) ==
    RSum([r \in 1..Len(grid.regions) |->
            RSum([e \in 1..Len(grid.regions[r].elements) |->
                    LET element == grid.regions[r].elements[e]
                    IN  RSum([l \in DOMAIN element.vertices |->
                                IF element.vertices[l] = v
                                THEN RMul(RMul(element.subelementVolumes[l],
                                               accumulationOf(problemData, grid.regions[r])),
                                          oldTemperature[v])
                                ELSE Zero],
                             0, Size(element.vertices) - 1)],
                 1, Len(grid.regions[r].elements))],
         1, Len(grid.regions))

NeumannTermAt(v) ==
    RSum([b \in 1..Len(problemData.neumannBoundaries) |->
            LET bCondition == problemData.neumannBoundaries[b]
            IN  RSum([o \in 1..Len(bCondition.outerFaces) |->
                        IF bCondition.outerFaces[o].vertex = v
                        THEN RNeg(RMul(bCondition.value, norm(bCondition.outerFaces[o].area)))
                        ELSE Zero],
                     1, Len(bCondition.outerFaces))],
         1, Len(problemData.neumannBoundaries))

DirichletConditionsAt(v) ==
    {b \in 1..Len(problemData.dirichletBoundaries) :
        \E i \in 1..Len(problemData.dirichletBoundaries[b].vertices) :
            problemData.dirichletBoundaries[b].vertices[i] = v}

LastDirichletValueAt(v) ==
    problemData.dirichletBoundaries[
        CHOOSE b \in DirichletConditionsAt(v) : \A o \in DirichletConditionsAt(v) : o <= b].value

\* C6 (as claimed): on a single-triangle mesh with the same Dirichlet value T0
\* on all three vertices and no heat source, the convergence check of
\* iteration 0 returns true with numericalTemperature equal to T0 everywhere.
SingleTriangleUniformDirichlet ==
    /\ pc # "idle"
    /\ grid.name = "tri1"
    /\ Len(problemData.dirichletBoundaries) = 1
    /\ problemData.dirichletBoundaries[1].vertices = AllVertices(grid)
    /\ HeatGenerationOf(1) = Zero

UniformTriangleT0 == problemData.dirichletBoundaries[1].value

UniformTriangleConvergesAtIterationZero ==
    (SingleTriangleUniformDirichlet /\ pc = "incrementIteration" /\ iteration = 0) =>
        (converged /\ numericalTemperature = Uniform(UniformTriangleT0))

\* C6 (amended): on that mesh every solve returns T0 at every vertex; the
\* convergence check of iteration 0 returns true exactly when the simulated
\* time has passed finalTime, and otherwise the check of iteration 1 finds
\* difference = 0 and (for tolerance > 0) returns true.
UniformTriangleConvergesByIterationOne ==
    SingleTriangleUniformDirichlet =>
        /\ Solved => numericalTemperature = Uniform(UniformTriangleT0)
        /\ (pc = "incrementIteration" /\ iteration = 0) =>
                (converged = RLess(problemData.finalTime, currentTime))
        /\ (pc = "incrementIteration" /\ iteration = 1) =>
                /\ difference = Zero
                /\ RLess(Zero, problemData.tolerance) => converged

UniformTriangleWitness ==
    /\ SingleTriangleUniformDirichlet
    /\ pc = "run"
    /\ iteration = 2
    /\ converged
    /\ ~RLess(problemData.finalTime, currentTime)
    /\ UniformTriangleT0 # problemData.initialValue
    /\ numericalTemperature = Uniform(UniformTriangleT0)

\* C7: on a single-region mesh with zero heat generation, zero Neumann flux
\* and every Dirichlet vertex prescribed initialValue, every solve returns
\* initialValue at every vertex, so the convergence check of iteration 1 finds
\* difference = 0 and (for tolerance > 0) marks the run converged.
ConstantFieldProblem ==
    /\ pc # "idle"
    /\ Len(grid.regions) = 1
    /\ HeatGenerationOf(1) = Zero
    /\ \A b \in 1..Len(problemData.neumannBoundaries) :
            problemData.neumannBoundaries[b].value = Zero
    /\ \A b \in 1..Len(problemData.dirichletBoundaries) :
            problemData.dirichletBoundaries[b].value = problemData.initialValue

ConstantFieldStaysConstant ==
    ConstantFieldProblem =>
        /\ Solved => numericalTemperature = Uniform(problemData.initialValue)
        /\ (pc = "incrementIteration" /\ iteration = 1) =>
                /\ difference = Zero
                /\ RLess(Zero, problemData.tolerance) => converged

ConstantFieldWitness ==
    /\ ConstantFieldProblem
    /\ pc = "incrementIteration"
    /\ iteration = 1
    /\ converged
    /\ ~RLess(problemData.finalTime, currentTime)
    /\ problemData.initialValue # Zero
    /\ grid.name = "quad1"
    /\ DirichletVertices(problemData) \notin {{}, Handles}
    /\ problemData.propertyData[0].Density # Zero

\* Properties of the result sink that do not depend on the order of the steps:
\* one save per iteration, of the temperature just solved and the current
\* time, and one finalize after the loop.
SavedThisIteration == pc \in {"checkConvergence", "incrementIteration"}

SinkDiscipline ==
    /\ pc # "idle" => saver.saves = iteration + (IF SavedThisIteration THEN 1 ELSE 0)
    /\ SavedThisIteration => (saver.field = numericalTemperature /\ saver.time = currentTime)
    /\ pc = "incrementIteration" => oldTemperature = numericalTemperature
    /\ pc # "idle" => saver.finalized = (IF pc = "done" THEN 1 ELSE 0)

IsPrefix(a, b) == Len(a) <= Len(b) /\ a = SubSeq(b, 1, Len(a))

\* C8 (as claimed): each iteration runs assemble, solve, check convergence,
\* and only then advances the timer and persists the field, then increments
\* the iteration counter; one save per iteration, one finalize after the loop.
ClaimedStepOrder == <<"assemble", "solve", "check", "advance", "save", "increment">>

CheckBeforeAdvanceAndSave ==
    /\ pc # "idle" => IsPrefix(steps, ClaimedStepOrder)
    /\ SinkDiscipline

\* C8 (amended): each iteration runs assemble, solve, advance the timer,
\* persist the field, check convergence (which advances oldTemperature), then
\* increments the iteration counter; the sink is invoked exactly once per
\* iteration with the temperature just solved and the advanced time, and is
\* finalized exactly once after the loop.
StepOrder == <<"assemble", "solve", "advance", "save", "check", "increment">>

AdvanceAndSaveBeforeCheck ==
    /\ pc # "idle" => IsPrefix(steps, StepOrder)
    /\ (pc = "run" /\ iteration > 0) => steps = StepOrder
    /\ pc = "checkConvergence" =>
            (currentTime = RMul(R(iteration + 1), problemData.timeStep) /\ saver.time = currentTime)
    /\ SinkDiscipline

StepOrderWitness ==
    /\ pc = "done"
    /\ iteration = 2
    /\ steps = StepOrder
    /\ saver.saves = 2
    /\ saver.finalized = 1
    /\ saver.field = numericalTemperature
    /\ saver.field # Uniform(saver.field[0])

\* C9: the heat-generation pass overwrites: after it independent[v] is
\* v.volume times the InternalHeatGeneration of the last region having an
\* element that contains v, however many elements or earlier regions contain
\* v; the transient term (and then the Neumann term) is added on top of it.
VerticesInElements == {v \in Handles : RegionsContaining(v) # {}}

HeatTermAt(v) == RMul(grid.vertices[v].volume, HeatGenerationOf(LastRegionContaining(v)))

HeatGenerationOverwrites ==
    pc = "solveLinearSystem" =>
        /\ \A v \in VerticesInElements :
                HeatGenerationPass(grid, problemData, Uniform(Zero))[v] = HeatTermAt(v)
        /\ \A v \in VerticesInElements \ DirichletVertices(problemData) :
                independent[v] = RAdd(RAdd(HeatTermAt(v), TransientTermAt(v)), NeumannTermAt(v))

HeatGenerationWitness ==
    /\ pc = "solveLinearSystem"
    /\ Len(grid.regions) = 2
    /\ HeatGenerationOf(1) # Zero
    /\ HeatGenerationOf(2) = Zero
    /\ DirichletVertices(problemData) = {}
    /\ TransientTermAt(0) # Zero
    /\ Cardinality(RegionsContaining(0)) = 2
    /\ independent[0] = RAdd(TransientTermAt(0), NeumannTermAt(0))

\* C10: at the end of every assembly independent[v] is the prescribed
\* Dirichlet value of every Dirichlet vertex v (that of the last condition
\* listing v when several do), whatever was written to v earlier in the same
\* assembly, and applying the Dirichlet pass again changes nothing.
BeforeDirichletPass ==
    NeumannPass(grid, problemData,
        TransientPass(grid, problemData, oldTemperature,
            HeatGenerationPass(grid, problemData, Uniform(Zero))))

DirichletValuesFinal ==
    pc = "solveLinearSystem" =>
        /\ \A v \in DirichletVertices(problemData) : independent[v] = LastDirichletValueAt(v)
        /\ DirichletPass(problemData, independent) = independent

DirichletValuesWitness ==
    /\ pc = "solveLinearSystem"
    /\ iteration = 1
    /\ Cardinality(DirichletConditionsAt(1)) = 2
    /\ problemData.dirichletBoundaries[1].value # problemData.dirichletBoundaries[2].value
    /\ \A v \in DirichletVertices(problemData) : BeforeDirichletPass[v] # independent[v]

====
